---------------------------- MODULE Spec2Model ----------------------------
(***************************************************************************)
(* The persistent render queue (lib/queue, SQLite version) and the render  *)
(* worker (lib/worker) of resonate, with the HTTP routes that call them.   *)
(*                                                                         *)
(* The job table and the frame directories are durable: they survive a     *)
(* crash of the process.  Everything else (workerRunning, activeJobId, the *)
(* worker's position and locals, the asset listener, the memoized encoder) *)
(* is process memory and is lost by a crash.                               *)
(*                                                                         *)
(* One action of the worker is one synchronous run of its code between two *)
(* awaits: Node runs it to completion before any HTTP handler runs.        *)
(***************************************************************************)
EXTENDS Integers, Sequences, FiniteSets, TLC

(* ------------------------------ bounds -------------------------------- *)

\* Largest total track duration, in frames, of an enqueued payload.
MaxFrames == 2

\* Largest value of Date.now().
MaxClock == 1

\* Job ids the routes may draw (Math.random().toString(36).substring(7)).
JobIds == {"j1", "j2"}

\* Labels of the add route.
Labels == {"Untitled Mix"}

\* Payloads: the tracks' durationInFrames and the names (keys) of the
\* uploaded audio and background files; one track of MaxFrames frames and no
\* upload.
Payloads == {[tracks |-> <<MaxFrames>>, audioFiles |-> {}, bgFileBuffers |-> {}]}

\* Crashes of the process in a behaviour of LiveSpec.
MaxCrashes == 1

(* ---------------------------- job records ------------------------------ *)

NoJob == "none"

NullStr == "null"

NullTime == -1

NullName == <<>>

DefaultDuration == 300

Statuses == {"pending", "rendering", "done", "error", "cancelled"}

Terminal == {"done", "error", "cancelled"}

\* What the machine answers to the encoder probe: whether an ffmpeg binary is
\* found, whether `ffmpeg -encoders` runs, and the encoders it lists.
ProbeOutcomes ==
    { [found |-> FALSE, ok |-> FALSE, out |-> {}],
      [found |-> TRUE,  ok |-> FALSE, out |-> {}],
      [found |-> TRUE,  ok |-> TRUE,  out |-> {"libx264"}],
      [found |-> TRUE,  ok |-> TRUE,  out |-> {"libx264", "h264_qsv", "h264_nvenc"}] }

\* The machine of Spec: its ffmpeg lists two hardware encoders.
HostProbe == [found |-> TRUE, ok |-> TRUE, out |-> {"libx264", "h264_qsv", "h264_nvenc"}]

(* progress is a real number in the code; here an irreducible fraction.     *)
RECURSIVE Gcd(_, _)
Gcd(a, b) == IF b = 0 THEN a ELSE Gcd(b, a % b)

Frac(n, d) == LET g == Gcd(n, d) IN [n |-> n \div g, d |-> d \div g]

PLeq(p, q) == p.n * q.d <= q.n * p.d

(* ------------------------------ the store ------------------------------ *)
(* A table is the sequence of its rows in rowid (insertion) order.         *)

Ids(js) == {js[i].id : i \in 1..Len(js)}

\* queue.add: one INSERT; status pending, progress 0, createdAt now.
add(js, id, label, payload, t) ==
    Append(js, [id |-> id, label |-> label, status |-> "pending",
                progress |-> Frac(0, 1), createdAt |-> t,
                startedAt |-> NullTime, completedAt |-> NullTime,
                outputUrl |-> NullName, outputFileName |-> NullName,
                error |-> NullStr, payload |-> payload,
                encoderUsed |-> NullStr])

\* queue.get: SELECT * FROM jobs WHERE id = ? (a result of no row or one).
get(js, id) == LET IsId(r) == r.id = id IN SelectSeq(js, IsId)

\* ORDER BY createdAt ASC of a sorter that keeps rowid order among equals.
RECURSIVE OrderByCreatedAtAsc(_)
OrderByCreatedAtAsc(js) ==
    IF js = <<>> THEN <<>>
    ELSE LET n      == Len(js)
             r      == js[n]
             sorted == OrderByCreatedAtAsc(SubSeq(js, 1, n - 1))
             Before(x) == x.createdAt <= r.createdAt
             After(x)  == x.createdAt > r.createdAt
         IN  SelectSeq(sorted, Before) \o <<r>> \o SelectSeq(sorted, After)

\* Mutant of getPending: ORDER BY createdAt DESC.
getPendingNewest(js) ==
    LET IsPending(r) == r.status = "pending"
        rows == OrderByCreatedAtAsc(SelectSeq(js, IsPending))
    IN  IF rows = <<>> THEN <<>> ELSE <<rows[Len(rows)]>>

\* Mutant of getPending: WHERE status IN ('pending', 'cancelled').
getPendingOrCancelled(js) ==
    LET NotStarted(r) == r.status \in {"pending", "cancelled"}
        rows == OrderByCreatedAtAsc(SelectSeq(js, NotStarted))
    IN  IF rows = <<>> THEN <<>> ELSE <<rows[1]>>

\* Mutant of getPending: WHERE status IN ('pending', 'error'), a retry.
getPendingOrError(js) ==
    LET Eligible(r) == r.status \in {"pending", "error"}
        rows == OrderByCreatedAtAsc(SelectSeq(js, Eligible))
    IN  IF rows = <<>> THEN <<>> ELSE <<rows[1]>>

\* stmts.getPending: WHERE status = 'pending' ORDER BY createdAt ASC LIMIT 1.
getPending(js) ==
    LET IsPending(r) == r.status = "pending"
        rows == OrderByCreatedAtAsc(SelectSeq(js, IsPending))
    IN  IF rows = <<>> THEN <<>> ELSE <<rows[1]>>

\* Mutant of nextPending: the newest pending row.
nextPendingNewest(js) == getPendingNewest(js)

\* queue.nextPending: the row of getPending, or no row (undefined).
nextPending(js) == getPending(js)

\* stmts.getAll / queue.getAll: ORDER BY createdAt DESC.
getAll(js) ==
    LET n == Len(js)
        RECURSIVE Desc(_)
        Desc(k) ==
            IF k = 0 THEN <<>>
            ELSE LET r == js[k]
                     sorted == Desc(k - 1)
                     Newer(x) == x.createdAt >= r.createdAt
                     Older(x) == x.createdAt < r.createdAt
                 IN  SelectSeq(sorted, Newer) \o <<r>> \o SelectSeq(sorted, Older)
    IN  Desc(n)

\* Mutant of update: the merged row is written back whole.
updateAllColumns(js, id, updates) ==
    IF get(js, id) = <<>> THEN js
    ELSE [i \in 1..Len(js) |->
            IF js[i].id # id THEN js[i]
            ELSE [f \in DOMAIN js[i] |-> (updates @@ js[i])[f]]]

\* queue.update: read the row, merge the updates over it, and write the eight
\* columns of stmts.update; no row with that id: return.
update(js, id, updates) ==
    IF get(js, id) = <<>> THEN js
    ELSE [i \in 1..Len(js) |->
            IF js[i].id # id THEN js[i]
            ELSE LET merged == updates @@ js[i]
                 IN  [js[i] EXCEPT !.status = merged.status,
                                   !.progress = merged.progress,
                                   !.startedAt = merged.startedAt,
                                   !.completedAt = merged.completedAt,
                                   !.outputUrl = merged.outputUrl,
                                   !.outputFileName = merged.outputFileName,
                                   !.error = merged.error,
                                   !.encoderUsed = merged.encoderUsed]]

\* queue.setProgress: UPDATE jobs SET progress, status = 'rendering' WHERE id.
setProgress(js, id, p) ==
    [i \in 1..Len(js) |->
        IF js[i].id = id
        THEN [js[i] EXCEPT !.progress = p, !.status = "rendering"]
        ELSE js[i]]

\* Mutant of cancel: a row that is cancelled already is deleted.
cancelOrDelete(js, id) ==
    LET Stays(r) == ~(r.id = id /\ r.status = "cancelled")
        rest == SelectSeq(js, Stays)
    IN  [i \in 1..Len(rest) |->
            IF rest[i].id = id THEN [rest[i] EXCEPT !.status = "cancelled"] ELSE rest[i]]

\* queue.cancel: UPDATE jobs SET status = 'cancelled' WHERE id.
cancel(js, id) ==
    [i \in 1..Len(js) |->
        IF js[i].id = id THEN [js[i] EXCEPT !.status = "cancelled"] ELSE js[i]]

\* queue.delete: DELETE FROM jobs WHERE id = ?.
delete(js, id) == LET Other(r) == r.id # id IN SelectSeq(js, Other)

\* Mutant of clear: DELETE FROM jobs WHERE status <> 'rendering'.
clearNotRendering(js) == LET Live(r) == r.status = "rendering" IN SelectSeq(js, Live)

\* queue.clear: DELETE FROM jobs WHERE status IN ('done','error','cancelled').
clear(js) == LET Live(r) == r.status \notin Terminal IN SelectSeq(js, Live)

(* ------------------------------ encoder -------------------------------- *)

\* Mutant of detectHWEncoder: no fallback; the last candidate is returned
\* whatever the probe says.
detectHWEncoderNoFallback(p) ==
    IF p.found /\ p.ok /\ "h264_nvenc" \in p.out THEN "h264_nvenc"
    ELSE IF p.found /\ p.ok /\ "h264_videotoolbox" \in p.out THEN "h264_videotoolbox"
    ELSE IF p.found /\ p.ok /\ "h264_amf" \in p.out THEN "h264_amf"
    ELSE "h264_qsv"

\* detectHWEncoder: no ffmpeg, or a probe that throws: libx264; else the first
\* of nvenc, videotoolbox, amf, qsv that the probe output lists; else libx264.
detectHWEncoder(p) ==
    IF ~p.found THEN "libx264"
    ELSE IF ~p.ok THEN "libx264"
    ELSE IF "h264_nvenc" \in p.out THEN "h264_nvenc"
    ELSE IF "h264_videotoolbox" \in p.out THEN "h264_videotoolbox"
    ELSE IF "h264_amf" \in p.out THEN "h264_amf"
    ELSE IF "h264_qsv" \in p.out THEN "h264_qsv"
    ELSE "libx264"

\* getEncoder: the memoized encoder, detected on first use.
getEncoder(memo, p) == IF memo = NullStr THEN detectHWEncoder(p) ELSE memo

(* --------------------------- renderJob helpers ------------------------- *)

RECURSIVE SumDurations(_)
SumDurations(tracks) ==
    IF tracks = <<>> THEN 0 ELSE Head(tracks) + SumDurations(Tail(tracks))

\* durationInFrames: the tracks' total, or 300 when the total is 0.
durationInFrames(payload) ==
    LET totalDuration == SumDurations(payload.tracks)
    IN  IF totalDuration > 0 THEN totalDuration ELSE DefaultDuration

SetMax(S) == CHOOSE m \in S : \A x \in S : x <= m

\* Mutant of ResumeFrame: resume from the number of frame files.
ResumeFrameCount(frameFiles) == Cardinality(frameFiles)

\* The resume check: max frame index on disk + 1, or 0 with no frame file.
ResumeFrame(frameFiles) ==
    IF frameFiles # {} THEN SetMax(frameFiles) + 1 ELSE 0

endFrameOf(payload) == durationInFrames(payload) - 1

\* frameRange: [startFrame, endFrame], as the set of its frames.
frameRange(start, payload) == start..endFrameOf(payload)

\* Mutant of absoluteProgress: divided by the length of the range.
absoluteProgressOfRange(start, k, payload) ==
    LET rangeLength == endFrameOf(payload) - start + 1
    IN  Frac(start + k, rangeLength)

\* onProgress: the range's progress k/rangeLength rescaled to the whole job,
\* (startFrame + progress * rangeLength) / durationInFrames.
absoluteProgress(start, k, payload) ==
    LET rangeLength == endFrameOf(payload) - start + 1
    IN  Frac(start * rangeLength + k * rangeLength,
             durationInFrames(payload) * rangeLength)

(* A path is the sequence of its segments, a segment the sequence of its  *)
(* pieces; an upload's name is the sequence of the segments its "/" split. *)

\* os.tmpdir().
TmpDir == << <<"tmp">> >>

\* tempDir: path.join(os.tmpdir(), `remotion-queue-${id}`).
tempDirOf(id) == TmpDir \o << <<"remotion-queue-", id>> >>

\* safeName: `audio-${trackId}.data`, `bg-${bgId}.data`.
safeNameOf(prefix, key) ==
    [i \in 1..Len(key) |->
        (IF i = 1 THEN <<prefix>> ELSE <<>>) \o key[i]
            \o (IF i = Len(key) THEN <<".data">> ELSE <<>>)]

\* The normalisation of path.join: "." is dropped, ".." drops the segment
\* before it (none at the root).
RECURSIVE Normalize(_, _)
Normalize(done, rest) ==
    IF rest = <<>> THEN done
    ELSE IF Head(rest) = <<".">> THEN Normalize(done, Tail(rest))
    ELSE IF Head(rest) = <<"..">>
         THEN Normalize(IF done = <<>> THEN <<>> ELSE SubSeq(done, 1, Len(done) - 1),
                        Tail(rest))
    ELSE Normalize(Append(done, Head(rest)), Tail(rest))

\* path.join(tempDir, safeName).
pathJoin(dir, name) == Normalize(<<>>, dir \o name)

\* File p is below directory dir.
Inside(p, dir) == Len(p) > Len(dir) /\ SubSeq(p, 1, Len(dir)) = dir

\* The files renderJob writes for the uploads of a payload.
stagedFiles(id, payload) ==
    {pathJoin(tempDirOf(id), safeNameOf("audio-", k)) : k \in payload.audioFiles}
    \cup {pathJoin(tempDirOf(id), safeNameOf("bg-", k)) : k \in payload.bgFileBuffers}

outputFileNameOf(id) == <<"render-", id, ".mp4">>

\* Mutant of outputUrlOf: the file name without the leading slash.
outputUrlRelative(id) == outputFileNameOf(id)

outputUrlOf(id) == <<"/">> \o outputFileNameOf(id)

(* ------------------------------- state --------------------------------- *)

VARIABLES
    jobs,             \* the jobs table (.queue/jobs.sqlite), durable
    frames,           \* .queue/frames/<id>: the frame indices on disk, durable
    now,              \* Date.now()
    probe,            \* what this machine answers to the encoder probe
    workerRunning,    \* worker.ts: workerRunning
    loops,            \* the invocations of runLoop alive in the process
    activeJobId,      \* worker.ts: activeJobId
    inProgress,       \* the invocations of renderJob that have not ended
    detectedEncoder,  \* worker.ts: detectedEncoder (memo)
    pc,               \* where runLoop / renderJob is waiting
    job,              \* runLoop's `job`: the row nextPending returned
    startFrame,       \* renderJob's startFrame
    todo,             \* frames of the range renderMedia has not written yet
    server,           \* renderJob's asset listener is listening
    listeners,        \* loopback listeners open in the process
    tempDirs,         \* os.tmpdir()/remotion-queue-<id>: the ids that have one, durable
    staged,           \* the files on disk that the staging of the jobs wrote, durable
    cancelRequested,  \* history: cancel(job.id) was called during the frame render
    leftBehind,       \* history: the jobs that were pending when the worker took `job`
    renders,          \* history: how often renderJob was called with the row of an id
    pendingAtCrash,   \* history: the ids whose row was pending at the crash of CrashOnce
    crashes           \* history: crashes counted by CrashOnce

vars == <<jobs, frames, now, probe, workerRunning, loops, activeJobId, inProgress,
          detectedEncoder, pc, job, startFrame, todo, server, listeners, tempDirs, staged,
          cancelRequested, leftBehind, renders, pendingAtCrash, crashes>>

Frames == 0..(MaxFrames - 1)

NoRow == [id |-> NoJob, payload |-> [tracks |-> <<>>, audioFiles |-> {}, bgFileBuffers |-> {}]]

\* The process starts on a machine that answers p to the encoder probe.
Boot(p) ==
    /\ jobs = <<>>
    /\ frames = [id \in JobIds |-> {}]
    /\ now = 0
    /\ probe = p
    /\ workerRunning = FALSE
    /\ loops = 0
    /\ activeJobId = NoJob
    /\ inProgress = 0
    /\ detectedEncoder = NullStr
    /\ pc = "stopped"
    /\ job = NoRow
    /\ startFrame = 0
    /\ todo = {}
    /\ server = FALSE
    /\ listeners = 0
    /\ tempDirs = {}
    /\ staged = {}
    /\ cancelRequested = FALSE
    /\ leftBehind = {}
    /\ renders = [id \in JobIds |-> 0]
    /\ pendingAtCrash = {}
    /\ crashes = 0

Init == Boot(HostProbe)

(* ---------------------------- the worker loop -------------------------- *)

\* The positions of the worker inside an invocation of renderJob.
RenderPcs == {"stage", "bundle", "frames", "audio", "cleanup", "bindfail"}

\* Mutant of RunLoop: renderJob without its finally block.
RunLoopNoFinally(js) ==
    LET np == nextPending(js)
        ended == IF pc \in RenderPcs THEN 1 ELSE 0
    IN  /\ startFrame' = 0
        /\ todo' = {}
        /\ server' = FALSE
        /\ UNCHANGED <<listeners, tempDirs, staged>>
        /\ cancelRequested' = FALSE
        /\ pendingAtCrash' = pendingAtCrash
        /\ IF np = <<>>
           THEN /\ jobs' = js
                /\ pc' = "sleep"
                /\ job' = NoRow
                /\ activeJobId' = NoJob
                /\ inProgress' = inProgress - ended
                /\ leftBehind' = {}
                /\ renders' = renders
           ELSE /\ jobs' = update(js, np[1].id,
                                  [status |-> "rendering", startedAt |-> now,
                                   progress |-> Frac(1, 100)])
                /\ pc' = "stage"
                /\ job' = [id |-> np[1].id, payload |-> np[1].payload]
                /\ activeJobId' = np[1].id
                /\ inProgress' = (inProgress - ended) + 1
                /\ leftBehind' = {js[i].id : i \in {k \in 1..Len(js) :
                                        js[k].status = "pending" /\ js[k].id # np[1].id}}
                /\ renders' = [renders EXCEPT ![np[1].id] = @ + 1]

\* One turn of runLoop on table js, up to its first await: no pending job:
\* sleep; else activeJobId = job.id and renderJob's first statements, which
\* mark the job rendering with startedAt and progress 0.01.  A turn that
\* follows a renderJob starts when its finally block has run: the listener,
\* if there is one, closed and the staging directory removed.
RunLoop(js) ==
    LET np == nextPending(js)
        ended == IF pc \in RenderPcs THEN 1 ELSE 0
    IN  /\ startFrame' = 0
        /\ todo' = {}
        /\ server' = FALSE
        /\ listeners' = IF server THEN listeners - 1 ELSE listeners
        /\ tempDirs' = tempDirs \ {job.id}
        /\ staged' = {f \in staged : ~Inside(f, tempDirOf(job.id))}
        /\ cancelRequested' = FALSE
        /\ pendingAtCrash' = pendingAtCrash
        /\ IF np = <<>>
           THEN /\ jobs' = js
                /\ pc' = "sleep"
                /\ job' = NoRow
                /\ activeJobId' = NoJob
                /\ inProgress' = inProgress - ended
                /\ leftBehind' = {}
                /\ renders' = renders
           ELSE /\ jobs' = update(js, np[1].id,
                                  [status |-> "rendering", startedAt |-> now,
                                   progress |-> Frac(1, 100)])
                /\ pc' = "stage"
                /\ job' = [id |-> np[1].id, payload |-> np[1].payload]
                /\ activeJobId' = np[1].id
                /\ inProgress' = (inProgress - ended) + 1
                /\ leftBehind' = {js[i].id : i \in {k \in 1..Len(js) :
                                        js[k].status = "pending" /\ js[k].id # np[1].id}}
                /\ renders' = [renders EXCEPT ![np[1].id] = @ + 1]

\* Mutant of startWorker: without the test of workerRunning; a call made
\* while a loop runs starts another loop, whose first turn picks a job.
startWorkerUnguarded(js) ==
    IF workerRunning
    THEN LET np == nextPending(js)
         IN  /\ loops' = loops + 1
             /\ jobs' = IF np = <<>> THEN js
                        ELSE update(js, np[1].id,
                                    [status |-> "rendering", startedAt |-> now,
                                     progress |-> Frac(1, 100)])
             /\ inProgress' = IF np = <<>> THEN inProgress ELSE inProgress + 1
             /\ UNCHANGED <<workerRunning, activeJobId, pc, job, startFrame, todo,
                            server, listeners, tempDirs, staged, cancelRequested,
                            leftBehind, renders, pendingAtCrash>>
    ELSE /\ workerRunning' = TRUE
         /\ loops' = loops + 1
         /\ RunLoop(js)

\* startWorker: nothing when a loop runs already; else start runLoop.
startWorker(js) ==
    IF workerRunning
    THEN /\ jobs' = js
         /\ UNCHANGED <<workerRunning, loops, activeJobId, inProgress, pc, job, startFrame, todo,
                        server, listeners, tempDirs, staged, cancelRequested, leftBehind, renders, pendingAtCrash>>
    ELSE /\ workerRunning' = TRUE
         /\ loops' = loops + 1
         /\ RunLoop(js)

\* The sleep of an idle loop ends: the next turn.
Poll ==
    /\ pc = "sleep"
    /\ RunLoop(jobs)
    /\ UNCHANGED <<frames, now, probe, workerRunning, loops, detectedEncoder, crashes>>

\* mkdir tempDir, the imports, the staged audio and background files, and
\* server.listen(0, '127.0.0.1') calling back.
Stage ==
    /\ pc = "stage"
    /\ server' = TRUE
    /\ listeners' = listeners + 1
    /\ tempDirs' = tempDirs \cup {job.id}
    /\ staged' = staged \cup stagedFiles(job.id, job.payload)
    /\ pc' = "bundle"
    /\ UNCHANGED <<jobs, frames, now, probe, workerRunning, loops, activeJobId, inProgress,
                   detectedEncoder, job, startFrame, todo, cancelRequested,
                   leftBehind, renders, pendingAtCrash, crashes>>

\* The statements between the frame render and the audio render: progress
\* 0.99, getEncoder, encoderUsed.
PreStitch(js) ==
    LET encoder == getEncoder(detectedEncoder, probe)
    IN  /\ detectedEncoder' = encoder
        /\ jobs' = update(update(js, job.id,
                                 [status |-> "rendering", progress |-> Frac(99, 100)]),
                          job.id, [encoderUsed |-> encoder])

\* bundle, mkdir framesDir, readdir (startFrame from the frames on disk) and
\* selectComposition: with frames left to render, store the resume progress
\* and call renderMedia; else skip to the stitching part.
StartFrames ==
    /\ pc = "bundle"
    /\ startFrame' = ResumeFrame(frames[job.id])
    /\ IF startFrame' <= endFrameOf(job.payload)
       THEN /\ jobs' = update(jobs, job.id,
                              [status |-> "rendering",
                               progress |-> Frac(startFrame', durationInFrames(job.payload))])
            /\ todo' = frameRange(startFrame', job.payload)
            /\ pc' = "frames"
            /\ UNCHANGED detectedEncoder
       ELSE /\ PreStitch(jobs)
            /\ todo' = {}
            /\ pc' = "audio"
    /\ UNCHANGED <<frames, now, probe, workerRunning, loops, activeJobId, inProgress, job, server, listeners, tempDirs, staged,
                   cancelRequested, leftBehind, renders, pendingAtCrash, crashes>>

\* renderMedia writes one frame of its range (in any order: it renders with
\* concurrency = cpus) and reports progress.
RenderFrame(f) ==
    /\ pc = "frames"
    /\ f \in todo
    /\ frames' = [frames EXCEPT ![job.id] = @ \cup {f}]
    /\ todo' = todo \ {f}
    /\ LET rangeLength == endFrameOf(job.payload) - startFrame + 1
           k == rangeLength - Cardinality(todo')
       IN  jobs' = setProgress(jobs, job.id,
                               absoluteProgress(startFrame, k, job.payload))
    /\ UNCHANGED <<now, probe, workerRunning, loops, activeJobId, inProgress, detectedEncoder,
                   pc, job, startFrame, server, listeners, tempDirs, staged, cancelRequested, leftBehind, renders, pendingAtCrash, crashes>>

\* renderMedia of the frames resolves.
FramesDone ==
    /\ pc = "frames"
    /\ todo = {}
    /\ PreStitch(jobs)
    /\ pc' = "audio"
    /\ UNCHANGED <<frames, now, probe, workerRunning, loops, activeJobId, inProgress, job,
                   startFrame, todo, server, listeners, tempDirs, staged, cancelRequested, leftBehind, renders, pendingAtCrash, crashes>>

\* renderMedia of the audio resolves, ffmpeg (execSync of findFfmpeg() ||
\* 'ffmpeg', which runs only on a machine that has an ffmpeg) stitches, the
\* job is marked done.
AudioAndStitch ==
    /\ pc = "audio"
    /\ probe.found
    /\ jobs' = update(jobs, job.id,
                      [status |-> "done", progress |-> Frac(1, 1),
                       outputUrl |-> outputUrlOf(job.id),
                       outputFileName |-> outputFileNameOf(job.id),
                       completedAt |-> now])
    /\ pc' = "cleanup"
    /\ UNCHANGED <<frames, now, probe, workerRunning, loops, activeJobId, inProgress,
                   detectedEncoder, job, startFrame, todo, server, listeners, tempDirs, staged,
                   cancelRequested, leftBehind, renders, pendingAtCrash, crashes>>

\* Mutant of Cleanup: no rm of framesDir.
CleanupKeepsFrames ==
    /\ pc = "cleanup"
    /\ RunLoop(jobs)
    /\ UNCHANGED <<frames, now, probe, workerRunning, loops, detectedEncoder, crashes>>

\* rm framesDir, the finally block, and back in runLoop the next turn.
Cleanup ==
    /\ pc = "cleanup"
    /\ frames' = [frames EXCEPT ![job.id] = {}]
    /\ RunLoop(jobs)
    /\ UNCHANGED <<now, probe, workerRunning, loops, detectedEncoder, crashes>>

\* What can throw where renderJob is waiting.
FailuresAt(at) ==
    CASE at = "stage"   -> {"staging failed"}
      [] at = "bundle"  -> {"bundle failed"}
      [] at = "frames"  -> {"frame render failed"}
      [] at = "audio"   -> {"audio render failed", "ffmpeg failed"}
      [] at = "cleanup" -> {"rm failed"}
      [] OTHER          -> {}

\* Mutant of Fail: runLoop without its catch; the exception ends the loop.
FailUncaught(msg) ==
    /\ msg \in FailuresAt(pc)
    /\ pc' = "stopped"
    /\ job' = NoRow
    /\ server' = FALSE
    /\ listeners' = IF server THEN listeners - 1 ELSE listeners
    /\ tempDirs' = tempDirs \ {job.id}
    /\ staged' = {f \in staged : ~Inside(f, tempDirOf(job.id))}
    /\ todo' = {}
    /\ UNCHANGED <<jobs, frames, now, probe, workerRunning, loops, activeJobId, inProgress,
                   detectedEncoder, startFrame, cancelRequested, leftBehind, renders, pendingAtCrash, crashes>>

\* Mutant of Fail: the failure path removes the frame directory as well.
FailRemovesFrames(msg) ==
    /\ msg \in FailuresAt(pc)
    /\ frames' = [frames EXCEPT ![job.id] = {}]
    /\ RunLoop(update(jobs, job.id,
                      [status |-> "error", error |-> msg, completedAt |-> now]))
    /\ UNCHANGED <<now, probe, workerRunning, loops, detectedEncoder, crashes>>

\* An await of renderJob throws: the finally block closes the listener, the
\* catch of runLoop stores the error, and the loop takes its next turn.
Fail(msg) ==
    /\ msg \in FailuresAt(pc)
    /\ RunLoop(update(jobs, job.id,
                      [status |-> "error", error |-> msg, completedAt |-> now]))
    /\ UNCHANGED <<frames, now, probe, workerRunning, loops, detectedEncoder, crashes>>

(* ------------------------------ the routes ----------------------------- *)

\* POST /api/queue/add: queue.add (an INSERT of an id in the table throws)
\* and startWorker.  The id is random; it is never that of the job in flight.
Enqueue(id, label, payload) ==
    /\ id \notin Ids(jobs)
    /\ id # job.id
    /\ startWorker(add(jobs, id, label, payload, now))
    /\ UNCHANGED <<frames, now, probe, detectedEncoder, crashes>>

\* GET /api/queue/list: startWorker, getAll, getWorkerState.
List ==
    /\ startWorker(jobs)
    /\ detectedEncoder' = getEncoder(detectedEncoder, probe)
    /\ UNCHANGED <<frames, now, probe, crashes>>

\* DELETE /api/queue/status?id: queue.cancel.
Cancel(id) ==
    /\ jobs' = cancel(jobs, id)
    /\ cancelRequested' = (cancelRequested \/ (pc = "frames" /\ job.id = id))
    /\ UNCHANGED <<frames, now, probe, workerRunning, loops, activeJobId, inProgress,
                   detectedEncoder, pc, job, startFrame, todo, server, listeners, tempDirs, staged,
                   leftBehind, renders, pendingAtCrash, crashes>>

\* DELETE /api/queue/list: queue.clear.
Clear ==
    /\ jobs' = clear(jobs)
    /\ renders' = [id \in JobIds |-> IF id \in Ids(clear(jobs)) THEN renders[id] ELSE 0]
    /\ UNCHANGED <<frames, now, probe, workerRunning, loops, activeJobId, inProgress,
                   detectedEncoder, pc, job, startFrame, todo, server, listeners, tempDirs, staged,
                   cancelRequested, leftBehind, pendingAtCrash, crashes>>

(* ---------------------------- the environment -------------------------- *)

\* Mutant of ProcessDies: the rows that were not started yet were only in
\* memory and are lost.
ProcessDiesLosesPending ==
    /\ workerRunning' = FALSE
    /\ loops' = 0
    /\ activeJobId' = NoJob
    /\ inProgress' = 0
    /\ detectedEncoder' = NullStr
    /\ pc' = "stopped"
    /\ job' = NoRow
    /\ startFrame' = 0
    /\ todo' = {}
    /\ server' = FALSE
    /\ listeners' = 0
    /\ cancelRequested' = FALSE
    /\ leftBehind' = {}
    /\ jobs' = LET Started(r) == r.status # "pending" IN SelectSeq(jobs, Started)
    /\ UNCHANGED <<frames, now, probe, tempDirs, staged, renders>>

\* The process dies and is started again: its memory is lost, the table and
\* the frame directories stay.
ProcessDies ==
    /\ workerRunning' = FALSE
    /\ loops' = 0
    /\ activeJobId' = NoJob
    /\ inProgress' = 0
    /\ detectedEncoder' = NullStr
    /\ pc' = "stopped"
    /\ job' = NoRow
    /\ startFrame' = 0
    /\ todo' = {}
    /\ server' = FALSE
    /\ listeners' = 0
    /\ cancelRequested' = FALSE
    /\ leftBehind' = {}
    /\ UNCHANGED <<jobs, frames, now, probe, tempDirs, staged, renders>>

Crash ==
    /\ ProcessDies
    /\ UNCHANGED <<pendingAtCrash, crashes>>

\* The same, at most MaxCrashes times in a behaviour.
CrashOnce ==
    /\ crashes < MaxCrashes
    /\ crashes' = crashes + 1
    /\ pendingAtCrash' = {jobs[i].id : i \in {k \in 1..Len(jobs) : jobs[k].status = "pending"}}
    /\ ProcessDies

\* Time passes.
Tick ==
    /\ now < MaxClock
    /\ now' = now + 1
    /\ UNCHANGED <<jobs, frames, probe, workerRunning, loops, activeJobId, inProgress,
                   detectedEncoder, pc, job, startFrame, todo, server, listeners, tempDirs, staged,
                   cancelRequested, leftBehind, renders, pendingAtCrash, crashes>>

WorkerStep ==
    \/ Poll
    \/ Stage
    \/ StartFrames
    \/ \E f \in Frames : RenderFrame(f)
    \/ FramesDone
    \/ AudioAndStitch
    \/ Cleanup

Next ==
    \/ \E id \in JobIds, label \in Labels, payload \in Payloads : Enqueue(id, label, payload)
    \/ List
    \/ \E id \in JobIds : Cancel(id)
    \/ Clear
    \/ WorkerStep
    \/ \E msg \in FailuresAt(pc) : Fail(msg)
    \/ Crash
    \/ Tick

Spec == Init /\ [][Next]_vars

(* ------------------- the store on its own: StoreSpec ------------------- *)
(* Every operation of the queue object, called with any argument, in any   *)
(* order; the worker does not run.                                         *)

ProgressArgs == {Frac(1, 2)}

UpdateArgs ==
    {[status |-> st] : st \in Statuses}
    \cup {[status |-> "rendering", startedAt |-> now, progress |-> Frac(1, 100)],
          [status |-> "error", error |-> "failed", completedAt |-> now],
          [id |-> "other", label |-> "Renamed", createdAt |-> MaxClock + 1,
           payload |-> <<>>]}

WorkerIdle ==
    UNCHANGED <<frames, probe, workerRunning, loops, activeJobId, inProgress, detectedEncoder, pc,
                job, startFrame, todo, server, listeners, tempDirs, staged, cancelRequested, leftBehind, renders, pendingAtCrash, crashes>>

StoreAdd(id, label, payload) ==
    /\ id \notin Ids(jobs)
    /\ jobs' = add(jobs, id, label, payload, now)
    /\ UNCHANGED now
    /\ WorkerIdle

StoreUpdate(id, updates) ==
    /\ jobs' = update(jobs, id, updates)
    /\ UNCHANGED now
    /\ WorkerIdle

StoreSetProgress(id, p) ==
    /\ jobs' = setProgress(jobs, id, p)
    /\ UNCHANGED now
    /\ WorkerIdle

StoreCancel(id) ==
    /\ jobs' = cancel(jobs, id)
    /\ UNCHANGED now
    /\ WorkerIdle

StoreDelete(id) ==
    /\ jobs' = delete(jobs, id)
    /\ UNCHANGED now
    /\ WorkerIdle

StoreClear ==
    /\ jobs' = clear(jobs)
    /\ UNCHANGED now
    /\ WorkerIdle

\* Date.now() is the wall clock: it advances, and it can be set back.
StoreTick ==
    /\ now' \in (0..MaxClock) \ {now}
    /\ UNCHANGED jobs
    /\ WorkerIdle

StoreNext ==
    \/ \E id \in JobIds, label \in Labels, payload \in Payloads : StoreAdd(id, label, payload)
    \/ \E id \in JobIds, updates \in UpdateArgs : StoreUpdate(id, updates)
    \/ \E id \in JobIds, p \in ProgressArgs : StoreSetProgress(id, p)
    \/ \E id \in JobIds : StoreCancel(id)
    \/ \E id \in JobIds : StoreDelete(id)
    \/ StoreClear
    \/ StoreTick

StoreSpec == Init /\ [][StoreNext]_vars

(* ------------- no failing step, no cancel, one crash: LiveSpec ---------- *)
(* The external steps succeed and end; the UI polls /api/queue/list, which *)
(* calls startWorker.                                                      *)

LiveNext ==
    \/ \E id \in JobIds, label \in Labels, payload \in Payloads : Enqueue(id, label, payload)
    \/ List
    \/ WorkerStep
    \/ CrashOnce
    \/ Tick

LiveSpec == Init /\ [][LiveNext]_vars /\ WF_vars(WorkerStep) /\ WF_vars(List)

(* ------------- no failing step, no cancel, no crash: NoFaultSpec -------- *)

NoFaultNext ==
    \/ \E id \in JobIds, label \in Labels, payload \in Payloads : Enqueue(id, label, payload)
    \/ List
    \/ Clear
    \/ WorkerStep
    \/ Tick

\* Every await of the worker ends: weak fairness of its steps.
NoFaultSpec == Init /\ [][NoFaultNext]_vars /\ WF_vars(WorkerStep)

(* ------------- any machine, no cancel, no crash: EncoderSpec ------------ *)
(* The machine's answer to the probe is any of ProbeOutcomes.  The steps   *)
(* succeed, but for the stitch on a machine on which no ffmpeg runs.       *)

EncoderInit == \E p \in ProbeOutcomes : Boot(p)

\* execSync of the stitch command throws: no ffmpeg runs on this machine.
StitchFails ==
    /\ pc = "audio"
    /\ ~probe.found
    /\ Fail("ffmpeg failed")

EncoderNext ==
    \/ \E id \in JobIds, label \in Labels, payload \in Payloads : Enqueue(id, label, payload)
    \/ List
    \/ WorkerStep
    \/ StitchFails
    \/ Tick

\* Every await of the worker ends, and execSync returns or throws.
EncoderSpec ==
    EncoderInit /\ [][EncoderNext]_vars /\ WF_vars(WorkerStep) /\ WF_vars(StitchFails)

(* --------------- the listener cannot bind: BindSpec -------------------- *)
(* server.listen(0, '127.0.0.1', resolve) has no 'error' listener and the  *)
(* promise around it has no reject: when the bind fails the server emits   *)
(* 'error', which nothing handles, and resolve is never called.            *)

\* The bind of the job's listener fails: renderJob stays at its await.
BindFails ==
    /\ pc = "stage"
    /\ pc' = "bindfail"
    /\ tempDirs' = tempDirs \cup {job.id}
    /\ staged' = staged \cup stagedFiles(job.id, job.payload)
    /\ UNCHANGED <<jobs, frames, now, probe, workerRunning, loops, activeJobId, inProgress,
                   detectedEncoder, job, startFrame, todo, server, listeners,
                   cancelRequested, leftBehind, renders, pendingAtCrash, crashes>>

\* The unhandled 'error' event is an uncaught exception: without a handler
\* of the host for it, the process dies.  With one the process lives and
\* renderJob waits for ever (no step).
UnhandledError ==
    /\ pc = "bindfail"
    /\ ProcessDies
    /\ UNCHANGED <<pendingAtCrash, crashes>>

BindNext ==
    \/ \E id \in JobIds, label \in Labels, payload \in Payloads : Enqueue(id, label, payload)
    \/ List
    \/ WorkerStep
    \/ BindFails
    \/ UnhandledError
    \/ Tick

\* Every await of the worker that is answered ends.
BindSpec == Init /\ [][BindNext]_vars /\ WF_vars(WorkerStep)

(* ------------- uploads with any file name: StagingSpec ------------------ *)
(* The keys of audioFiles and bgFileBuffers are the file.name of the       *)
(* multipart parts of the request, which the sender chooses.               *)

\* file.name of an upload: "song.mp3", "my song", "../../x", "../../../x".
UploadNames ==
    { << <<"song", ".", "mp3">> >>,
      << <<"my", " ", "song">> >>,
      << <<"..">>, <<"..">>, <<"x">> >>,
      << <<"..">>, <<"..">>, <<"..">>, <<"x">> >> }

\* The payloads of POST /api/queue/add with at most one audio upload and at
\* most one background upload.
StagePayloads ==
    {[tracks |-> <<MaxFrames>>, audioFiles |-> a, bgFileBuffers |-> b] :
        a \in {{}} \cup {{n} : n \in UploadNames},
        b \in {{}, {<< <<"song", ".", "mp3">> >>}}}

StagingNext ==
    \/ \E id \in JobIds, label \in Labels, payload \in StagePayloads :
            Enqueue(id, label, payload)
    \/ Clear
    \/ WorkerStep
    \/ Tick

StagingSpec == Init /\ [][StagingNext]_vars

(* ------------------------------- claims -------------------------------- *)

Has(js, id) == id \in Ids(js)

Row(js, id) == get(js, id)[1]

Kept(id) == Has(jobs, id) /\ Has(jobs', id)

RenderingRows == {i \in 1..Len(jobs) : jobs[i].status = "rendering"}

PendingRows(js) == {i \in 1..Len(js) : js[i].status = "pending"}

\* The worker takes job id in this step.
Picks(id) == job'.id = id /\ job.id # id

\* C1: in every reachable state, also after a crash and a restart of the
\* worker, at most one row of the table has status rendering.
C1_SingleFlight == Cardinality(RenderingRows) <= 1

\* C2: once the stored status of a job is done, error or cancelled, no step
\* changes it to another value.
C2_TerminalAbsorbing ==
    [][\A id \in JobIds :
          (Kept(id) /\ Row(jobs, id).status \in Terminal)
              => Row(jobs', id).status = Row(jobs, id).status]_vars

\* C3: a job that was rendering, with part of its frames on disk, when the
\* process crashed is, once the worker is started again, rendered to done.
C3_CrashRecovery ==
    \A id \in JobIds :
        (/\ crashes > 0
         /\ pc = "stopped"
         /\ Has(jobs, id)
         /\ Row(jobs, id).status = "rendering"
         /\ frames[id] # {}
         /\ frames[id] # Frames)
            ~> (Has(jobs, id) /\ Row(jobs, id).status = "done")

\* C4: the frame range requested from the renderer is every frame above the
\* highest frame index on disk (every frame when none is on disk); when no
\* frame lies above it nothing is requested; and a frame that is on disk is
\* never rendered again.
C4_ResumePoint ==
    [][/\ (pc = "bundle" /\ pc' = "frames")
            => /\ todo' = {f \in Frames : \A g \in frames[job.id] : f > g}
               /\ todo' # {}
       /\ (pc = "bundle" /\ pc' = "audio")
            => {f \in Frames : \A g \in frames[job.id] : f > g} = {}
       /\ (pc = "frames" /\ pc' = "frames")
            => /\ todo' \subseteq todo
               /\ \A f \in todo \ todo' : f \notin frames[job.id]
               /\ frames'[job.id] = frames[job.id] \cup (todo \ todo')]_vars

\* C4 witness: the worker renders a range that starts above frame 0.
C4_Resumed == pc = "frames" /\ startFrame > 0 /\ todo # {}

\* C5: over two successive states in which a job is rendering, its stored
\* progress does not decrease.
C5_ProgressMonotone ==
    [][\A id \in JobIds :
          (/\ Kept(id)
           /\ Row(jobs, id).status = "rendering"
           /\ Row(jobs', id).status = "rendering")
              => PLeq(Row(jobs, id).progress, Row(jobs', id).progress)]_vars

\* C6: the progress of a job whose stored status is done, error or cancelled
\* is not written: it keeps its value, and that of a done job is 1.
C6_ProgressFrozen ==
    [][\A id \in JobIds :
          (Kept(id) /\ Row(jobs, id).status \in Terminal)
              => /\ Row(jobs', id).progress = Row(jobs, id).progress
                 /\ Row(jobs, id).status = "done" => Row(jobs, id).progress = Frac(1, 1)]_vars

\* C7: nextPending returns a pending row whose createdAt is least among the
\* pending rows, and no row exactly when no row is pending.
C7_NextPendingOldest ==
    LET np == nextPending(jobs)
    IN  /\ (np = <<>>) <=> (PendingRows(jobs) = {})
        /\ np # <<>> =>
              /\ Len(np) = 1
              /\ \E i \in PendingRows(jobs) : jobs[i] = np[1]
              /\ \A k \in PendingRows(jobs) : np[1].createdAt <= jobs[k].createdAt

\* C7 witness: two pending rows, the older one inserted after the younger
\* one (the clock was set back), and nextPending returns the older one.
C7_OlderOfTwo ==
    \E i, k \in 1..Len(jobs) :
        /\ k < i
        /\ jobs[i].status = "pending"
        /\ jobs[k].status = "pending"
        /\ jobs[i].createdAt < jobs[k].createdAt
        /\ nextPending(jobs) = <<jobs[i]>>

C10_CancelAborts ==
    cancelRequested =>
        /\ pc = "frames"
        /\ Has(jobs, job.id) => Row(jobs, job.id).status = "cancelled"

\* C11: two cancel(id) in a row leave the table as one cancel(id) leaves it,
\* and cancel of an id that has no row leaves the table as it is.
C11_CancelIdempotent ==
    \A id \in JobIds :
        /\ cancel(cancel(jobs, id), id) = cancel(jobs, id)
        /\ ~Has(jobs, id) => cancel(jobs, id) = jobs

\* C11 witness: a cancelled row (cancel has acted on it, a second cancel
\* finds it cancelled) next to an id that has no row.
C11_CancelledTwice ==
    \E id, other \in JobIds :
        /\ Has(jobs, id)
        /\ Row(jobs, id).status = "cancelled"
        /\ Row(jobs, id).progress # Frac(0, 1)
        /\ ~Has(jobs, other)

\* C12: cancel(id) of a job whose status is done or error changes nothing.
C12_CancelTerminalNoop ==
    \A id \in JobIds :
        (Has(jobs, id) /\ Row(jobs, id).status \in {"done", "error"})
            => cancel(jobs, id) = jobs

\* The rows of a table that clear() must keep.
LiveIds(js) == {js[i].id : i \in {k \in 1..Len(js) : js[k].status \in {"pending", "rendering"}}}

\* C13: clear() removes the rows that are done, error or cancelled, and only
\* them; it leaves the pending and rendering rows as they are (so changes
\* nothing when no row is terminal); and no step of the routes or the worker
\* removes a row that is pending or rendering.
C13_ClearOnlyTerminal ==
    [][/\ Ids(clear(jobs)) = LiveIds(jobs)
       /\ Len(clear(jobs)) = Cardinality(LiveIds(jobs))
       /\ \A id \in LiveIds(jobs) : Row(clear(jobs), id) = Row(jobs, id)
       /\ (LiveIds(jobs) = Ids(jobs)) => clear(jobs) = jobs
       /\ \A id \in LiveIds(jobs) : Has(jobs', id)]_vars

\* C13 witness: the row of the job the worker holds was cancelled and removed
\* by clear(), and a job that was pending when the worker took that job still
\* has its pending row.
C13_ClearedBesideLive ==
    /\ job.id # NoJob
    /\ ~Has(jobs, job.id)
    /\ \E other \in leftBehind :
          /\ Has(jobs, other)
          /\ Row(jobs, other).status = "pending"

\* renderJob ends in this step before its done update, and the process lives.
Throws ==
    /\ pc \in {"stage", "bundle", "frames", "audio"}
    /\ job' # job
    /\ workerRunning'

C15_FramesKeptOnFailure ==
    [][/\ \A id \in JobIds :
            ~(frames[id] \subseteq frames'[id]) => (pc = "cleanup" /\ job.id = id)
       /\ (pc' = "cleanup" /\ pc # "cleanup") =>
            /\ pc = "audio"
            /\ Has(jobs, job.id) => Row(jobs', job.id).status = "done"
       /\ Throws => frames' = frames]_vars

\* C15 witness: a job failed in the audio render or the stitching and every
\* one of its frames is on disk.
C15_FailedWithFrames ==
    \E id \in JobIds :
        /\ Has(jobs, id)
        /\ Row(jobs, id).status = "error"
        /\ Row(jobs, id).error \in FailuresAt("audio")
        /\ frames[id] = Frames

\* renderJob ends in this step, with its row done or by an exception.
Exits ==
    /\ pc \in {"stage", "bundle", "frames", "audio", "cleanup"}
    /\ job' # job
    /\ workerRunning'

\* C16: when renderJob ends, by success or by an exception (it has no other
\* way out: a cancelled job runs on), its listener is closed and its staging
\* directory is removed in the run that takes the next job, before that job
\* opens its own; and at most one listener is open in any state.
C16_ScopedRelease ==
    [][/\ listeners <= 1
       /\ listeners' <= 1
       /\ Exits => /\ listeners' = 0
                   /\ ~server'
                   /\ job.id \notin tempDirs']_vars

\* C16 witness: the worker renders a job behind its listener, out of its
\* staging directory, after the job before it ended with an error.
C16_SecondListener ==
    \E id \in JobIds :
        /\ Has(jobs, id)
        /\ Row(jobs, id).status = "error"
        /\ Row(jobs, id).error \in FailuresAt("frames")
        /\ id \notin tempDirs
        /\ pc = "frames"
        /\ job.id # id
        /\ job.id \in tempDirs
        /\ Row(jobs, id).completedAt = 1
        /\ Has(jobs, job.id)
        /\ Row(jobs, job.id).createdAt = 0
        /\ server
        /\ listeners = 1

\* C17: with no failing step, no cancel and no crash, a pending job becomes
\* rendering and a rendering job becomes done; a done job has progress 1, an
\* outputUrl and a completedAt; and the frames of a done job leave the disk.
C17_HappyPath ==
    \A id \in JobIds :
        /\ [](Has(jobs, id) /\ Row(jobs, id).status = "done"
                => /\ Row(jobs, id).progress = Frac(1, 1)
                   /\ Row(jobs, id).outputUrl # NullName
                   /\ Row(jobs, id).completedAt # NullTime)
        /\ (Has(jobs, id) /\ Row(jobs, id).status = "pending")
              ~> (Has(jobs, id) /\ Row(jobs, id).status = "rendering")
        /\ (Has(jobs, id) /\ Row(jobs, id).status = "rendering")
              ~> (Has(jobs, id) /\ Row(jobs, id).status = "done")
        /\ (Has(jobs, id) /\ Row(jobs, id).status = "done" /\ frames[id] # {})
              ~> (frames[id] = {})

\* C17 witness: both jobs are done, with nothing of them left on disk, and
\* the worker sleeps.
C17_AllDone ==
    /\ pc = "sleep"
    /\ Ids(jobs) = JobIds
    /\ \A id \in JobIds :
          /\ Row(jobs, id).status = "done"
          /\ Row(jobs, id).progress = Frac(1, 1)
          /\ Row(jobs, id).outputUrl = outputUrlOf(id)
          /\ frames[id] = {}
          /\ id \notin tempDirs

\* C18: once the startedAt of a job is set no step changes it, and once its
\* completedAt is set no step changes it.
C18_TimestampsSetOnce ==
    [][\A id \in JobIds :
          Kept(id) =>
              /\ Row(jobs, id).startedAt # NullTime
                    => Row(jobs', id).startedAt = Row(jobs, id).startedAt
              /\ Row(jobs, id).completedAt # NullTime
                    => Row(jobs', id).completedAt = Row(jobs, id).completedAt]_vars

\* C19: from the step that marks a job rendering on (its startedAt is set),
\* its encoderUsed is set; so it is set on a job that failed in the frame
\* render.
C19_EncoderAtStart ==
    \A id \in JobIds :
        (Has(jobs, id) /\ Row(jobs, id).startedAt # NullTime)
            => Row(jobs, id).encoderUsed # NullStr

\* The probe fails (no ffmpeg found, or `ffmpeg -encoders` throws) or lists
\* no hardware encoder.
NoHardware(p) ==
    \/ ~p.found
    \/ ~p.ok
    \/ p.out \cap {"h264_nvenc", "h264_videotoolbox", "h264_amf", "h264_qsv"} = {}

\* C20: on a machine whose probe fails or lists no hardware encoder,
\* detection gives libx264, no job is in status error, and a rendering job
\* becomes done with encoderUsed = libx264.
C20_SoftwareFallback ==
    \A id \in JobIds :
        /\ [](NoHardware(probe) =>
                /\ getEncoder(detectedEncoder, probe) = "libx264"
                /\ Has(jobs, id) => Row(jobs, id).status # "error")
        /\ (NoHardware(probe) /\ Has(jobs, id) /\ Row(jobs, id).status = "rendering")
              ~> (/\ Has(jobs, id)
                  /\ Row(jobs, id).status = "done"
                  /\ Row(jobs, id).encoderUsed = "libx264")

\* C20 amended: on such a machine detection gives libx264 and a job that is
\* done has encoderUsed = libx264; where an ffmpeg was found no job is in
\* status error and a rendering job becomes done; where none was found the
\* only error is that of the stitch, on a job with encoderUsed = libx264.
C20_FallbackWhereFfmpegRuns ==
    \A id \in JobIds :
        /\ [](NoHardware(probe) =>
                /\ getEncoder(detectedEncoder, probe) = "libx264"
                /\ (Has(jobs, id) /\ Row(jobs, id).status = "done")
                      => Row(jobs, id).encoderUsed = "libx264"
                /\ (Has(jobs, id) /\ Row(jobs, id).status = "error")
                      => /\ ~probe.found
                         /\ Row(jobs, id).error = "ffmpeg failed"
                         /\ Row(jobs, id).encoderUsed = "libx264")
        /\ (NoHardware(probe) /\ probe.found
                /\ Has(jobs, id) /\ Row(jobs, id).status = "rendering")
              ~> (/\ Has(jobs, id)
                  /\ Row(jobs, id).status = "done"
                  /\ Row(jobs, id).encoderUsed = "libx264")

\* C20 witness: the probe command threw, and a job is done with libx264.
C20_DoneWithLibx264 ==
    \E id \in JobIds :
        /\ probe.found
        /\ ~probe.ok
        /\ Has(jobs, id)
        /\ Row(jobs, id).status = "done"
        /\ Row(jobs, id).encoderUsed = "libx264"
        /\ detectedEncoder = "libx264"

\* C21: when the listener of a job cannot bind, the worker leaves that job:
\* it does so alive, with status error and completedAt stored on the job,
\* and in the same run takes the next pending job or sleeps.
C21_BindFailureFailsJob ==
    /\ [][(pc = "bindfail" /\ pc' # "bindfail") =>
              /\ workerRunning'
              /\ pc' \in {"sleep", "stage"}
              /\ Has(jobs, job.id) =>
                    /\ Row(jobs', job.id).status = "error"
                    /\ Row(jobs', job.id).completedAt # NullTime]_vars
    /\ (pc = "bindfail") ~> (pc # "bindfail")

\* C22: no step changes the id, the label, the createdAt or the payload of
\* a row, whatever update, setProgress and cancel are called with.
C22_CreationFieldsFixed ==
    [][\A i \in 1..Len(jobs) :
          Kept(jobs[i].id) =>
              /\ Row(jobs', jobs[i].id).label = jobs[i].label
              /\ Row(jobs', jobs[i].id).createdAt = jobs[i].createdAt
              /\ Row(jobs', jobs[i].id).payload = jobs[i].payload
              /\ Cardinality({k \in 1..Len(jobs') : jobs'[k].id = jobs[i].id}) = 1]_vars

\* C22 witness: a row on which setProgress, update and cancel have all
\* acted, with the label and the payload it was added with.
C22_UpdatedRow ==
    \E id \in JobIds :
        /\ Has(jobs, id)
        /\ Row(jobs, id).status = "cancelled"
        /\ Row(jobs, id).progress = Frac(1, 2)
        /\ Row(jobs, id).error = "failed"
        /\ Row(jobs, id).label \in Labels
        /\ Row(jobs, id).payload \in Payloads

\* C23: renderJob is called at most once with the row of an id; the worker
\* takes a job only while its row is pending (or was added in that step)
\* and marks it rendering, and no step makes a row pending again; a row in
\* status error is not
\* taken, keeps its error message, and leaves the table only by clear().
C23_NoRetry ==
    [][\A id \in JobIds :
          /\ renders'[id] <= 1
          /\ Picks(id) =>
                /\ Has(jobs, id) => Row(jobs, id).status = "pending"
                /\ Has(jobs', id)
                /\ Row(jobs', id).status = "rendering"
          /\ (Kept(id) /\ Row(jobs, id).status # "pending")
                => Row(jobs', id).status # "pending"
          /\ (Has(jobs, id) /\ Row(jobs, id).status = "error") =>
                /\ ~Picks(id)
                /\ Has(jobs', id) \/ jobs' = clear(jobs)
                /\ Has(jobs', id) => Row(jobs', id).error = Row(jobs, id).error]_vars

\* C23 witness: a job failed at time 0 and its row is in status error with
\* its message; the worker has since taken a job that was added at time 1.
C23_ErrorRowSkipped ==
    \E id \in JobIds :
        /\ Has(jobs, id)
        /\ Row(jobs, id).status = "error"
        /\ Row(jobs, id).error # NullStr
        /\ Row(jobs, id).completedAt = 0
        /\ job.id # NoJob
        /\ job.id # id
        /\ Has(jobs, job.id)
        /\ Row(jobs, job.id).status = "rendering"
        /\ Row(jobs, job.id).createdAt = 1

\* C24: a crash leaves the table as it is, so a job that was pending keeps
\* its row and fields; once the worker runs again such a job becomes done
\* (unless the process crashes once more first); the worker takes the oldest
\* pending job at every pick; and renderJob is never called again with a row
\* that is done.
C24_PendingSurvivesCrash ==
    /\ [][/\ crashes' # crashes => jobs' = jobs
          /\ \A id \in JobIds :
                /\ renders'[id] <= 1
                /\ (Has(jobs, id) /\ Row(jobs, id).status = "done") => ~Picks(id)
                /\ Picks(id) =>
                      \A i \in PendingRows(jobs) :
                          jobs[i].id # id
                              => jobs[i].createdAt >= Row(jobs', id).createdAt]_vars
    /\ \A id \in JobIds, c \in 1..(MaxCrashes + 1) :
          (id \in pendingAtCrash /\ crashes = c)
              ~> ((Has(jobs, id) /\ Row(jobs, id).status = "done") \/ crashes > c)

\* C24 witness: both jobs were pending when the process crashed, and after
\* the restart both are done, the older one first, each rendered once.
C24_BothDoneAfterCrash ==
    /\ crashes > 0
    /\ pendingAtCrash = JobIds
    /\ \A id \in JobIds :
          /\ Has(jobs, id)
          /\ Row(jobs, id).status = "done"
          /\ renders[id] = 1
    /\ \E a, b \in JobIds :
          /\ Row(jobs, a).createdAt < Row(jobs, b).createdAt
          /\ Row(jobs, a).startedAt <= Row(jobs, b).startedAt

C26_StitchHasAllFrames ==
    pc = "audio" => (0..endFrameOf(job.payload)) \subseteq frames[job.id]

\* C27: a row in status done has progress 1, outputFileName render-<id>.mp4,
\* outputUrl /render-<id>.mp4 and a completedAt; and outputUrl and
\* outputFileName are set on a row only by a step that marks it done.
C27_DoneFields ==
    [][\A id \in JobIds :
          Has(jobs', id) =>
              LET r == Row(jobs', id)
                  wasSet == /\ Has(jobs, id)
                            /\ Row(jobs, id).outputUrl # NullName
                            /\ Row(jobs, id).outputFileName # NullName
              IN  /\ r.status = "done" =>
                        /\ r.progress = Frac(1, 1)
                        /\ r.outputFileName = <<"render-", id, ".mp4">>
                        /\ r.outputUrl = <<"/", "render-", id, ".mp4">>
                        /\ r.completedAt # NullTime
                  /\ (r.outputUrl # NullName \/ r.outputFileName # NullName)
                        => (wasSet \/ r.status = "done")]_vars

\* C27 witness: a job taken at time 0 is done at time 1, with its output
\* fields, and its frames are removed.
C27_DoneRow ==
    \E id \in JobIds :
        /\ Has(jobs, id)
        /\ Row(jobs, id).status = "done"
        /\ Row(jobs, id).outputUrl = <<"/", "render-", id, ".mp4">>
        /\ Row(jobs, id).startedAt = 0
        /\ Row(jobs, id).completedAt = 1
        /\ frames[id] = {}
        /\ job.id # id

\* The pieces made only of letters, digits, "." and "-".
SafePieces == {"audio-", "bg-", ".data", "song", "mp3", "my", "x", ".", ".."}

\* File f lies directly in directory dir.
DirectlyIn(f, dir) == Len(f) = Len(dir) + 1 /\ Inside(f, dir)

\* C28: every file the staging wrote lies directly in the staging directory
\* of a job, under a name made only of letters, digits, "." and "-".
C28_StagedInsideTempDir ==
    \A f \in staged :
        /\ \E id \in JobIds : DirectlyIn(f, tempDirOf(id))
        /\ \A i \in 1..Len(f[Len(f)]) : f[Len(f)][i] \in SafePieces

\* C29: whatever calls of startWorker the enqueue and list requests made, one
\* loop runs in the process once a request called it, never two, and at most
\* one invocation of renderJob is in progress.
C29_OneLoopOneRender ==
    /\ [](loops <= 1 /\ inProgress <= 1)
    /\ []((workerRunning \/ pc # "stopped") => loops = 1)
    /\ [][/\ Len(jobs') > Len(jobs) => loops' = 1
          /\ loops' < loops => (pc' = "stopped" /\ ~workerRunning')]_vars

\* C29 witness: two enqueue requests in one process, the second made while
\* the first job renders, and one loop, one invocation.
C29_SecondCallWhileRendering ==
    /\ crashes = 0
    /\ Len(jobs) = 2
    /\ pc \in RenderPcs
    /\ job.id = jobs[1].id
    /\ loops = 1
    /\ inProgress = 1

\* C30: no job has status error together with a set outputUrl: a job marked
\* done stays done when the removal of its frame directory fails.
C30_NoErrorWithOutputUrl ==
    \A i \in 1..Len(jobs) :
        ~(jobs[i].status = "error" /\ jobs[i].outputUrl # NullName)

=============================================================================
